---- MODULE Spec2Model ----
(***************************************************************************)
(* LendTez (src/contract/contract.py): a SmartPy contract holding p2p     *)
(* loan requests and credit deals.  The storage fields are the variables   *)
(* of the module; every entry point is an operator from (storage, call)    *)
(* to (error, storage, emitted operations), and an action runs one call   *)
(* as the host does: credit the attached amount, run the entry point,     *)
(* apply the emitted operations, and commit or roll back the whole call.  *)
(***************************************************************************)
EXTENDS Integers, Sequences, FiniteSets, TLC

(* ---------------------------------------------------------------- bounds *)
MaxTokens == 2          \* catalog entries added by add_token
MaxLoans  == 2          \* loan requests created by add_loan
MaxTicks  == 2          \* steps of the host clock
InitXtz   == 1          \* native balance of every account at the start
InitTok   == 1          \* balance of every account on every token ledger

(* ------------------------------------------------------------- constants *)
XTZ  == 0
FA12 == 1
FA20 == 2
DAY  == 86400

OK                == "OK"
ACCESS_DENIED     == "ERR_ACCESS_DENIED"
ILLEGAL_ARGUMENT  == "ERR_ILLEGAL_ARGUMENT"
ILLEGAL_TX_AMOUNT == "ERR_ILLEGAL_TX_AMOUNT"
PAUSED            == "ERR_PAUSED"
\* sp.as_nat on a negative number, sp.contract(...).open_some() on a missing
\* entry point: the entry point fails without one of the four messages.
RUNTIME_FAILURE   == "RUNTIME_FAILURE"
\* an emitted operation fails in the host or in the token contract
OP_FAILED         == "OP_FAILED"

Errors == {ACCESS_DENIED, ILLEGAL_ARGUMENT, ILLEGAL_TX_AMOUNT, PAUSED}

(* ---------------------------------------------------------------- actors *)
creator == "creator"
Self    == "self"                          \* sp.self_address
Users   == {creator, "userA", "userB"}     \* callers (implicit accounts)
Holders == Users \cup {Self}

\* Option values: sp.none is << >>, sp.some(x) is <<x>>.
None    == << >>
Some(x) == <<x>>

\* Token contracts the host knows, with the standard each one implements.
Ledgers == {"KT1btc", "KT1eth"}
LedgerStd(a) == IF a = "KT1btc" THEN FA12 ELSE FA20

VARIABLES
    pause, baker, admins, time, ntoken, tokens, nloan, loans, ndeal, deals,
    xtz,        \* native balance of every holder (xtz[Self] is sp.balance)
    tok,        \* tok[ledger][holder]: balances kept by the token contracts
    now,        \* sp.now
    book,       \* history: what became of every loan request (its lineage)
    snap,       \* history: the state before the last add_loan
    last        \* the entry point of the last call that was applied (a failed
                \* call leaves no trace in the state)

storage == <<pause, baker, admins, time, ntoken, tokens, nloan, loans, ndeal, deals>>
vars    == <<pause, baker, admins, time, ntoken, tokens, nloan, loans, ndeal, deals,
             xtz, tok, now, book, snap, last>>

\* The storage as one record, the value an entry point reads and returns.
Data == [pause |-> pause, baker |-> baker, admins |-> admins, time |-> time,
         ntoken |-> ntoken, tokens |-> tokens, nloan |-> nloan, loans |-> loans,
         ndeal |-> ndeal, deals |-> deals]

\* self.init(...) of LendTez.__init__
InitData == [pause |-> FALSE, baker |-> None, admins |-> {creator},
             time |-> [min |-> 7 * DAY, max |-> 180 * DAY],
             ntoken |-> 0, tokens |-> << >>, nloan |-> 0, loans |-> << >>,
             ndeal |-> 0, deals |-> << >>]

(* --------------------------------------------------------------- helpers *)
\* del without effect.
Del_kept(m, k) == m

\* A map with key k bound to v (big_map update) and with key k removed (del).
Put(m, k, v) == [x \in DOMAIN m \cup {k} |-> IF x = k THEN v ELSE m[x]]
Del(m, k)    == [x \in DOMAIN m \ {k} |-> m[x]]

\* The result of an entry point: its error (OK when none), the storage it
\* leaves and the operations it emitted, in order.
Done(d, ops)      == [err |-> OK, data |-> d, ops |-> ops]
Fail(d, ops, msg) == [err |-> msg, data |-> d, ops |-> ops]

\* Emitted operations.  The field refund is no part of the message: it marks
\* the operations refund_deposit emits, for the history variables.
\* A native transfer that never leaves the contract.
Send_kept(to, amount) ==
    [kind |-> "send", address |-> Self, from |-> Self, to |-> Self,
     amount |-> amount, token_id |-> 0, refund |-> FALSE]

Send(to, amount) ==
    [kind |-> "send", address |-> to, from |-> Self, to |-> to,
     amount |-> amount, token_id |-> 0, refund |-> FALSE]
SetDelegate(b) ==
    [kind |-> "set_delegate", address |-> b, from |-> Self, to |-> Self,
     amount |-> 0, token_id |-> 0, refund |-> FALSE]

\* transfer_tokens with source and destination exchanged.
transfer_tokens_swapped(sender, receiver, amount, token) ==
    IF token.type = FA12
    THEN [kind |-> "fa12", address |-> token.address, from |-> receiver,
          to |-> sender, amount |-> amount, token_id |-> 0, refund |-> FALSE]
    ELSE [kind |-> "fa2", address |-> token.address, from |-> receiver,
          to |-> sender, amount |-> amount, token_id |-> token.token_id,
          refund |-> FALSE]

\* transfer_tokens: the FA1.2 message {from, to, value} for an FA12 token,
\* the FA2 message [{from_, txs: [{to_, token_id, amount}]}] for any other.
transfer_tokens(sender, receiver, amount, token) ==
    IF token.type = FA12
    THEN [kind |-> "fa12", address |-> token.address, from |-> sender,
          to |-> receiver, amount |-> amount, token_id |-> 0, refund |-> FALSE]
    ELSE [kind |-> "fa2", address |-> token.address, from |-> sender,
          to |-> receiver, amount |-> amount, token_id |-> token.token_id,
          refund |-> FALSE]

(* ------------------------------------------------- entry points: registry *)
\* A call c carries what the host supplies: c.sender (sp.sender), c.amount
\* (sp.amount, in mutez), c.now (sp.now) and c.balance (sp.balance, which
\* already counts c.amount).  p holds the parameters of the entry point.

\* def default(self): pass
default(d, c, p) == Done(d, << >>)

\* withdraw with the check against locked_amount left out.
withdraw_unguarded(d, c, p) ==
    IF c.sender \notin d.admins THEN Fail(d, << >>, ACCESS_DENIED)
    ELSE IF p.id \notin DOMAIN d.tokens THEN Fail(d, << >>, ILLEGAL_ARGUMENT)
    ELSE IF d.tokens[p.id].type # XTZ THEN Fail(d, << >>, ILLEGAL_ARGUMENT)
    ELSE IF ~(p.amount > 0) THEN Fail(d, << >>, ILLEGAL_ARGUMENT)
    ELSE Done(d, <<Send(p.to, p.amount)>>)

withdraw(d, c, p) ==
    IF c.sender \notin d.admins THEN Fail(d, << >>, ACCESS_DENIED)
    ELSE IF p.id \notin DOMAIN d.tokens THEN Fail(d, << >>, ILLEGAL_ARGUMENT)
    ELSE IF d.tokens[p.id].type # XTZ THEN Fail(d, << >>, ILLEGAL_ARGUMENT)
    ELSE IF ~(p.amount > 0) THEN Fail(d, << >>, ILLEGAL_ARGUMENT)
    ELSE IF ~(c.balance >= d.tokens[p.id].locked_amount + p.amount)
         THEN Fail(d, << >>, ILLEGAL_ARGUMENT)
    ELSE Done(d, <<Send(p.to, p.amount)>>)

\* add_admin with the check of the caller left out.
add_admin_open(d, c, p) ==
    IF c.amount # 0 THEN Fail(d, << >>, ILLEGAL_TX_AMOUNT)
    ELSE IF p.address \in d.admins THEN Fail(d, << >>, ILLEGAL_ARGUMENT)
    ELSE Done([d EXCEPT !.admins = @ \cup {p.address}], << >>)

add_admin(d, c, p) ==
    IF c.amount # 0 THEN Fail(d, << >>, ILLEGAL_TX_AMOUNT)
    ELSE IF c.sender \notin d.admins THEN Fail(d, << >>, ACCESS_DENIED)
    ELSE IF p.address \in d.admins THEN Fail(d, << >>, ILLEGAL_ARGUMENT)
    ELSE Done([d EXCEPT !.admins = @ \cup {p.address}], << >>)

\* remove_admin that refuses the caller's own identity.
remove_admin_others(d, c, p) ==
    IF c.amount # 0 THEN Fail(d, << >>, ILLEGAL_TX_AMOUNT)
    ELSE IF c.sender \notin d.admins THEN Fail(d, << >>, ACCESS_DENIED)
    ELSE IF creator = p.address THEN Fail(d, << >>, ILLEGAL_ARGUMENT)
    ELSE IF c.sender = p.address THEN Fail(d, << >>, ILLEGAL_ARGUMENT)
    ELSE IF p.address \notin d.admins THEN Fail(d, << >>, ILLEGAL_ARGUMENT)
    ELSE Done([d EXCEPT !.admins = @ \ {p.address}], << >>)

\* remove_admin with the check against the creator left out.
remove_admin_any(d, c, p) ==
    IF c.amount # 0 THEN Fail(d, << >>, ILLEGAL_TX_AMOUNT)
    ELSE IF c.sender \notin d.admins THEN Fail(d, << >>, ACCESS_DENIED)
    ELSE IF p.address \notin d.admins THEN Fail(d, << >>, ILLEGAL_ARGUMENT)
    ELSE Done([d EXCEPT !.admins = @ \ {p.address}], << >>)

remove_admin(d, c, p) ==
    IF c.amount # 0 THEN Fail(d, << >>, ILLEGAL_TX_AMOUNT)
    ELSE IF c.sender \notin d.admins THEN Fail(d, << >>, ACCESS_DENIED)
    ELSE IF creator = p.address THEN Fail(d, << >>, ILLEGAL_ARGUMENT)
    ELSE IF p.address \notin d.admins THEN Fail(d, << >>, ILLEGAL_ARGUMENT)
    ELSE Done([d EXCEPT !.admins = @ \ {p.address}], << >>)

delegate(d, c, p) ==
    IF c.amount # 0 THEN Fail(d, << >>, ILLEGAL_TX_AMOUNT)
    ELSE IF c.sender \notin d.admins THEN Fail(d, << >>, ACCESS_DENIED)
    ELSE IF d.baker = p.baker THEN Fail(d, << >>, ILLEGAL_ARGUMENT)
    ELSE Done([d EXCEPT !.baker = p.baker], <<SetDelegate(p.baker)>>)

\* pause with the check against the value in effect left out.
pause_ep_rewrite(d, c, p) ==
    IF c.amount # 0 THEN Fail(d, << >>, ILLEGAL_TX_AMOUNT)
    ELSE IF c.sender \notin d.admins THEN Fail(d, << >>, ACCESS_DENIED)
    ELSE Done([d EXCEPT !.pause = p.pause], << >>)

\* The entry point pause (the storage field of the same name is the variable).
pause_ep(d, c, p) ==
    IF c.amount # 0 THEN Fail(d, << >>, ILLEGAL_TX_AMOUNT)
    ELSE IF c.sender \notin d.admins THEN Fail(d, << >>, ACCESS_DENIED)
    ELSE IF d.pause = p.pause THEN Fail(d, << >>, ILLEGAL_ARGUMENT)
    ELSE Done([d EXCEPT !.pause = p.pause], << >>)

\* set_time taking any pair that differs from the one in effect.
set_time_unchecked(d, c, p) ==
    IF c.amount # 0 THEN Fail(d, << >>, ILLEGAL_TX_AMOUNT)
    ELSE IF c.sender \notin d.admins THEN Fail(d, << >>, ACCESS_DENIED)
    ELSE IF d.time = p THEN Fail(d, << >>, ILLEGAL_ARGUMENT)
    ELSE Done([d EXCEPT !.time = p], << >>)

set_time(d, c, p) ==
    IF c.amount # 0 THEN Fail(d, << >>, ILLEGAL_TX_AMOUNT)
    ELSE IF c.sender \notin d.admins THEN Fail(d, << >>, ACCESS_DENIED)
    ELSE IF d.time = p THEN Fail(d, << >>, ILLEGAL_ARGUMENT)
    ELSE IF ~(p.min > 0 /\ p.min <= p.max) THEN Fail(d, << >>, ILLEGAL_ARGUMENT)
    ELSE Done([d EXCEPT !.time = p], << >>)

add_token(d, c, p) ==
    IF c.amount # 0 THEN Fail(d, << >>, ILLEGAL_TX_AMOUNT)
    ELSE IF c.sender \notin d.admins THEN Fail(d, << >>, ACCESS_DENIED)
    ELSE IF ~(p.type = XTZ \/ p.type = FA12 \/ p.type = FA20)
         THEN Fail(d, << >>, ILLEGAL_ARGUMENT)
    ELSE Done([d EXCEPT
                 !.tokens = Put(@, d.ntoken,
                     [name |-> p.name, address |-> p.address, type |-> p.type,
                      token_id |-> p.token_id, decimals |-> p.decimals,
                      locked_amount |-> 0, active |-> TRUE]),
                 !.ntoken = @ + 1], << >>)

set_token_active(d, c, p) ==
    IF c.amount # 0 THEN Fail(d, << >>, ILLEGAL_TX_AMOUNT)
    ELSE IF c.sender \notin d.admins THEN Fail(d, << >>, ACCESS_DENIED)
    ELSE IF p.id \notin DOMAIN d.tokens THEN Fail(d, << >>, ILLEGAL_ARGUMENT)
    ELSE IF d.tokens[p.id].active = p.active THEN Fail(d, << >>, ILLEGAL_ARGUMENT)
    ELSE Done([d EXCEPT !.tokens[p.id].active = p.active], << >>)

(* ------------------------------------------- entry points: loans and deals *)
\* An option comparison that the value compared with passes too.
OptGt_ge(o, t) == o # None /\ o[1] >= t

\* An option comparison that every value passes.
OptGt_any(o, t) == TRUE

\* Option comparison `o > sp.some(t)` of Michelson: none is below every some.
OptGt(o, t) == o # None /\ o[1] > t

\* add_loan taking any attached payment with a token deposit.
add_loan_any_amount(d, c, p) ==
    IF d.pause THEN Fail(d, << >>, PAUSED)
    ELSE IF p.loan_token_id \notin DOMAIN d.tokens THEN Fail(d, << >>, ILLEGAL_ARGUMENT)
    ELSE IF ~d.tokens[p.loan_token_id].active THEN Fail(d, << >>, ILLEGAL_ARGUMENT)
    ELSE IF ~(p.loan_amount > 0) THEN Fail(d, << >>, ILLEGAL_ARGUMENT)
    ELSE IF p.loan_token_id = p.deposit_token_id THEN Fail(d, << >>, ILLEGAL_ARGUMENT)
    ELSE IF p.deposit_token_id \notin DOMAIN d.tokens THEN Fail(d, << >>, ILLEGAL_ARGUMENT)
    ELSE IF ~d.tokens[p.deposit_token_id].active THEN Fail(d, << >>, ILLEGAL_ARGUMENT)
    ELSE IF ~(p.time >= d.time.min /\ p.time <= d.time.max)
         THEN Fail(d, << >>, ILLEGAL_ARGUMENT)
    ELSE IF ~(p.validity = None \/ OptGt(p.validity, c.now))
         THEN Fail(d, << >>, ILLEGAL_ARGUMENT)
    ELSE
      LET deposit_token == d.tokens[p.deposit_token_id]
          ops == IF deposit_token.type # XTZ /\ p.deposit_amount > 0
                 THEN <<transfer_tokens(c.sender, Self, p.deposit_amount, deposit_token)>>
                 ELSE << >>
          d1  == [d EXCEPT !.tokens[p.deposit_token_id].locked_amount =
                               @ + p.deposit_amount,
                           !.nloan = @ + 1]
          d2  == [d1 EXCEPT !.loans = Put(@, d1.nloan,
                     [ts |-> c.now, borrower |-> c.sender,
                      loan_token_id |-> p.loan_token_id,
                      loan_amount |-> p.loan_amount, reward |-> p.reward,
                      deposit_token_id |-> p.deposit_token_id,
                      deposit_amount |-> p.deposit_amount,
                      time |-> p.time, validity |-> p.validity])]
      IN  IF deposit_token.type = XTZ /\ p.deposit_amount # c.amount
          THEN Fail(d, << >>, ILLEGAL_TX_AMOUNT)
          ELSE Done(d2, ops)

\* add_loan numbering the request by the count of live requests.
add_loan_recycled(d, c, p) ==
    IF d.pause THEN Fail(d, << >>, PAUSED)
    ELSE IF p.loan_token_id \notin DOMAIN d.tokens THEN Fail(d, << >>, ILLEGAL_ARGUMENT)
    ELSE IF ~d.tokens[p.loan_token_id].active THEN Fail(d, << >>, ILLEGAL_ARGUMENT)
    ELSE IF ~(p.loan_amount > 0) THEN Fail(d, << >>, ILLEGAL_ARGUMENT)
    ELSE IF p.loan_token_id = p.deposit_token_id THEN Fail(d, << >>, ILLEGAL_ARGUMENT)
    ELSE IF p.deposit_token_id \notin DOMAIN d.tokens THEN Fail(d, << >>, ILLEGAL_ARGUMENT)
    ELSE IF ~d.tokens[p.deposit_token_id].active THEN Fail(d, << >>, ILLEGAL_ARGUMENT)
    ELSE IF ~(p.time >= d.time.min /\ p.time <= d.time.max)
         THEN Fail(d, << >>, ILLEGAL_ARGUMENT)
    ELSE IF ~(p.validity = None \/ OptGt(p.validity, c.now))
         THEN Fail(d, << >>, ILLEGAL_ARGUMENT)
    ELSE
      LET deposit_token == d.tokens[p.deposit_token_id]
          ops == IF deposit_token.type # XTZ /\ p.deposit_amount > 0
                 THEN <<transfer_tokens(c.sender, Self, p.deposit_amount, deposit_token)>>
                 ELSE << >>
          d1  == [d EXCEPT !.tokens[p.deposit_token_id].locked_amount =
                               @ + p.deposit_amount,
                           !.nloan = Cardinality(DOMAIN d.loans) + 1]
          d2  == [d1 EXCEPT !.loans = Put(@, d1.nloan,
                     [ts |-> c.now, borrower |-> c.sender,
                      loan_token_id |-> p.loan_token_id,
                      loan_amount |-> p.loan_amount, reward |-> p.reward,
                      deposit_token_id |-> p.deposit_token_id,
                      deposit_amount |-> p.deposit_amount,
                      time |-> p.time, validity |-> p.validity])]
      IN  IF deposit_token.type = XTZ /\ p.deposit_amount # c.amount
          THEN Fail(d, << >>, ILLEGAL_TX_AMOUNT)
          ELSE IF deposit_token.type # XTZ /\ c.amount # 0
          THEN Fail(d, << >>, ILLEGAL_TX_AMOUNT)
          ELSE Done(d2, ops)

add_loan(d, c, p) ==
    IF d.pause THEN Fail(d, << >>, PAUSED)
    ELSE IF p.loan_token_id \notin DOMAIN d.tokens THEN Fail(d, << >>, ILLEGAL_ARGUMENT)
    ELSE IF ~d.tokens[p.loan_token_id].active THEN Fail(d, << >>, ILLEGAL_ARGUMENT)
    ELSE IF ~(p.loan_amount > 0) THEN Fail(d, << >>, ILLEGAL_ARGUMENT)
    ELSE IF p.loan_token_id = p.deposit_token_id THEN Fail(d, << >>, ILLEGAL_ARGUMENT)
    ELSE IF p.deposit_token_id \notin DOMAIN d.tokens THEN Fail(d, << >>, ILLEGAL_ARGUMENT)
    ELSE IF ~d.tokens[p.deposit_token_id].active THEN Fail(d, << >>, ILLEGAL_ARGUMENT)
    ELSE IF ~(p.time >= d.time.min /\ p.time <= d.time.max)
         THEN Fail(d, << >>, ILLEGAL_ARGUMENT)
    ELSE IF ~(p.validity = None \/ OptGt(p.validity, c.now))
         THEN Fail(d, << >>, ILLEGAL_ARGUMENT)
    ELSE
      LET deposit_token == d.tokens[p.deposit_token_id]
          ops == IF deposit_token.type # XTZ /\ p.deposit_amount > 0
                 THEN <<transfer_tokens(c.sender, Self, p.deposit_amount, deposit_token)>>
                 ELSE << >>
          d1  == [d EXCEPT !.tokens[p.deposit_token_id].locked_amount =
                               @ + p.deposit_amount,
                           !.nloan = @ + 1]
          d2  == [d1 EXCEPT !.loans = Put(@, d1.nloan,
                     [ts |-> c.now, borrower |-> c.sender,
                      loan_token_id |-> p.loan_token_id,
                      loan_amount |-> p.loan_amount, reward |-> p.reward,
                      deposit_token_id |-> p.deposit_token_id,
                      deposit_amount |-> p.deposit_amount,
                      time |-> p.time, validity |-> p.validity])]
      IN  IF deposit_token.type = XTZ /\ p.deposit_amount # c.amount
          THEN Fail(d, << >>, ILLEGAL_TX_AMOUNT)
          ELSE IF deposit_token.type # XTZ /\ c.amount # 0
          THEN Fail(d, << >>, ILLEGAL_TX_AMOUNT)
          ELSE Done(d2, ops)

\* refund_deposit that pays out of active assets only.
refund_deposit_active_only(d, ops, receiver, token_id, amount) ==
    IF amount > 0
    THEN LET deposit_token == d.tokens[token_id]
             op == [(IF deposit_token.type = XTZ
                     THEN Send(receiver, amount)
                     ELSE transfer_tokens(Self, receiver, amount, deposit_token))
                    EXCEPT !.refund = TRUE]
         IN  IF ~deposit_token.active THEN Fail(d, ops, ILLEGAL_ARGUMENT)
             ELSE IF deposit_token.locked_amount - amount < 0
             THEN Fail(d, Append(ops, op), RUNTIME_FAILURE)
             ELSE Done([d EXCEPT !.tokens[token_id].locked_amount = @ - amount],
                       Append(ops, op))
    ELSE Done(d, ops)

\* refund_deposit with locked_amount left as it was.
refund_deposit_locked_kept(d, ops, receiver, token_id, amount) ==
    IF amount > 0
    THEN LET deposit_token == d.tokens[token_id]
             op == [(IF deposit_token.type = XTZ
                     THEN Send(receiver, amount)
                     ELSE transfer_tokens(Self, receiver, amount, deposit_token))
                    EXCEPT !.refund = TRUE]
         IN  Done(d, Append(ops, op))
    ELSE Done(d, ops)

\* refund_deposit, continuing a call that has reached storage d and has
\* emitted ops: the transfer is emitted, then locked_amount is lowered by
\* sp.as_nat(locked_amount - amount), which fails on a negative difference.
refund_deposit(d, ops, receiver, token_id, amount) ==
    IF amount > 0
    THEN LET deposit_token == d.tokens[token_id]
             op == [(IF deposit_token.type = XTZ
                     THEN Send(receiver, amount)
                     ELSE transfer_tokens(Self, receiver, amount, deposit_token))
                    EXCEPT !.refund = TRUE]
         IN  IF deposit_token.locked_amount - amount < 0
             THEN Fail(d, Append(ops, op), RUNTIME_FAILURE)
             ELSE Done([d EXCEPT !.tokens[token_id].locked_amount = @ - amount],
                       Append(ops, op))
    ELSE Done(d, ops)

\* cancel_loan open to the borrower alone.
cancel_loan_borrower_only(d, c, p) ==
    IF c.amount # 0 THEN Fail(d, << >>, ILLEGAL_TX_AMOUNT)
    ELSE IF p.id \notin DOMAIN d.loans THEN Fail(d, << >>, ILLEGAL_ARGUMENT)
    ELSE
      LET loan == d.loans[p.id]
          r    == refund_deposit(d, << >>, loan.borrower, loan.deposit_token_id,
                                 loan.deposit_amount)
      IN  IF ~(c.sender = loan.borrower)
          THEN Fail(d, << >>, ACCESS_DENIED)
          ELSE IF r.err # OK THEN r
          ELSE Done([r.data EXCEPT !.loans = Del(@, p.id)], r.ops)

\* cancel_loan refused while the contract is paused.
cancel_loan_gated(d, c, p) ==
    IF d.pause THEN Fail(d, << >>, PAUSED)
    ELSE IF c.amount # 0 THEN Fail(d, << >>, ILLEGAL_TX_AMOUNT)
    ELSE IF p.id \notin DOMAIN d.loans THEN Fail(d, << >>, ILLEGAL_ARGUMENT)
    ELSE
      LET loan == d.loans[p.id]
          r    == refund_deposit(d, << >>, loan.borrower, loan.deposit_token_id,
                                 loan.deposit_amount)
      IN  IF ~(c.sender = loan.borrower \/ c.sender \in d.admins)
          THEN Fail(d, << >>, ACCESS_DENIED)
          ELSE IF r.err # OK THEN r
          ELSE Done([r.data EXCEPT !.loans = Del(@, p.id)], r.ops)

\* cancel_loan refunding the caller instead of the borrower.
cancel_loan_to_sender(d, c, p) ==
    IF c.amount # 0 THEN Fail(d, << >>, ILLEGAL_TX_AMOUNT)
    ELSE IF p.id \notin DOMAIN d.loans THEN Fail(d, << >>, ILLEGAL_ARGUMENT)
    ELSE
      LET loan == d.loans[p.id]
          r    == refund_deposit(d, << >>, c.sender, loan.deposit_token_id,
                                 loan.deposit_amount)
      IN  IF ~(c.sender = loan.borrower \/ c.sender \in d.admins)
          THEN Fail(d, << >>, ACCESS_DENIED)
          ELSE IF r.err # OK THEN r
          ELSE Done([r.data EXCEPT !.loans = Del(@, p.id)], r.ops)

\* cancel_loan deleting the request without the refund.
cancel_loan_no_refund(d, c, p) ==
    IF c.amount # 0 THEN Fail(d, << >>, ILLEGAL_TX_AMOUNT)
    ELSE IF p.id \notin DOMAIN d.loans THEN Fail(d, << >>, ILLEGAL_ARGUMENT)
    ELSE
      LET loan == d.loans[p.id]
      IN  IF ~(c.sender = loan.borrower \/ c.sender \in d.admins)
          THEN Fail(d, << >>, ACCESS_DENIED)
          ELSE Done([d EXCEPT !.loans = Del(@, p.id)], << >>)

cancel_loan(d, c, p) ==
    IF c.amount # 0 THEN Fail(d, << >>, ILLEGAL_TX_AMOUNT)
    ELSE IF p.id \notin DOMAIN d.loans THEN Fail(d, << >>, ILLEGAL_ARGUMENT)
    ELSE
      LET loan == d.loans[p.id]
          r    == refund_deposit(d, << >>, loan.borrower, loan.deposit_token_id,
                                 loan.deposit_amount)
      IN  IF ~(c.sender = loan.borrower \/ c.sender \in d.admins)
          THEN Fail(d, << >>, ACCESS_DENIED)
          ELSE IF r.err # OK THEN r
          ELSE Done([r.data EXCEPT !.loans = Del(@, p.id)], r.ops)

\* make_deal open to the borrower of the request.
make_deal_own(d, c, p) ==
    IF d.pause THEN Fail(d, << >>, PAUSED)
    ELSE IF p.id \notin DOMAIN d.loans THEN Fail(d, << >>, ILLEGAL_ARGUMENT)
    ELSE
      LET loan == d.loans[p.id]
          loan_token == d.tokens[loan.loan_token_id]
          ops == IF loan_token.type = XTZ
                 THEN <<Send(loan.borrower, c.amount)>>
                 ELSE <<transfer_tokens(c.sender, loan.borrower, loan.loan_amount,
                                        loan_token)>>
          d1  == [d EXCEPT !.ndeal = @ + 1]
          d2  == [d1 EXCEPT !.deals = Put(@, d1.ndeal,
                     [ts |-> c.now, borrower |-> loan.borrower,
                      creditor |-> c.sender,
                      loan_token_id |-> loan.loan_token_id,
                      loan_amount |-> loan.loan_amount, reward |-> loan.reward,
                      exp |-> c.now + loan.time,
                      deposit_token_id |-> loan.deposit_token_id,
                      deposit_amount |-> loan.deposit_amount])]
      IN  IF ~(loan.validity = None \/ OptGt(loan.validity, c.now))
          THEN Fail(d, << >>, ILLEGAL_ARGUMENT)
          ELSE IF loan_token.type = XTZ /\ loan.loan_amount # c.amount
          THEN Fail(d, << >>, ILLEGAL_TX_AMOUNT)
          ELSE IF loan_token.type # XTZ /\ c.amount # 0
          THEN Fail(d, << >>, ILLEGAL_TX_AMOUNT)
          ELSE Done([d2 EXCEPT !.loans = Del(@, p.id)], ops)

make_deal(d, c, p) ==
    IF d.pause THEN Fail(d, << >>, PAUSED)
    ELSE IF p.id \notin DOMAIN d.loans THEN Fail(d, << >>, ILLEGAL_ARGUMENT)
    ELSE
      LET loan == d.loans[p.id]
          loan_token == d.tokens[loan.loan_token_id]
          ops == IF loan_token.type = XTZ
                 THEN <<Send(loan.borrower, c.amount)>>
                 ELSE <<transfer_tokens(c.sender, loan.borrower, loan.loan_amount,
                                        loan_token)>>
          d1  == [d EXCEPT !.ndeal = @ + 1]
          d2  == [d1 EXCEPT !.deals = Put(@, d1.ndeal,
                     [ts |-> c.now, borrower |-> loan.borrower,
                      creditor |-> c.sender,
                      loan_token_id |-> loan.loan_token_id,
                      loan_amount |-> loan.loan_amount, reward |-> loan.reward,
                      exp |-> c.now + loan.time,
                      deposit_token_id |-> loan.deposit_token_id,
                      deposit_amount |-> loan.deposit_amount])]
      IN  IF ~(loan.borrower # c.sender) THEN Fail(d, << >>, ILLEGAL_ARGUMENT)
          ELSE IF ~(loan.validity = None \/ OptGt(loan.validity, c.now))
          THEN Fail(d, << >>, ILLEGAL_ARGUMENT)
          ELSE IF loan_token.type = XTZ /\ loan.loan_amount # c.amount
          THEN Fail(d, << >>, ILLEGAL_TX_AMOUNT)
          ELSE IF loan_token.type # XTZ /\ c.amount # 0
          THEN Fail(d, << >>, ILLEGAL_TX_AMOUNT)
          ELSE Done([d2 EXCEPT !.loans = Del(@, p.id)], ops)

\* close_deal taking a borrower who is an admin for an admin: after the
\* expiry the deposit is released to it with nothing repaid.
close_deal_admin_default(d, c, p) ==
    IF p.id \notin DOMAIN d.deals THEN Fail(d, << >>, ILLEGAL_ARGUMENT)
    ELSE
      LET deal == d.deals[p.id]
          loan_token == d.tokens[deal.loan_token_id]
          byBorrower == c.sender = deal.borrower /\ c.sender \notin d.admins
          ops == IF ~byBorrower THEN << >>
                 ELSE IF loan_token.type = XTZ
                 THEN <<Send(deal.creditor, c.amount)>>
                 ELSE <<transfer_tokens(deal.borrower, deal.creditor,
                                        deal.loan_amount + deal.reward, loan_token)>>
          deposit_receiver == IF c.sender = deal.borrower THEN deal.borrower
                              ELSE deal.creditor
          r == refund_deposit(d, ops, deposit_receiver, deal.deposit_token_id,
                              deal.deposit_amount)
      IN  IF ~(c.sender = deal.borrower \/ c.sender = deal.creditor
               \/ c.sender \in d.admins)
          THEN Fail(d, << >>, ACCESS_DENIED)
          ELSE IF byBorrower /\ loan_token.type = XTZ
                  /\ deal.loan_amount + deal.reward # c.amount
          THEN Fail(d, << >>, ILLEGAL_TX_AMOUNT)
          ELSE IF byBorrower /\ loan_token.type # XTZ /\ c.amount # 0
          THEN Fail(d, << >>, ILLEGAL_TX_AMOUNT)
          ELSE IF ~byBorrower /\ ~(deal.exp < c.now)
          THEN Fail(d, << >>, ACCESS_DENIED)
          ELSE IF r.err # OK THEN r
          ELSE Done([r.data EXCEPT !.deals = Del(@, p.id)], r.ops)

\* close_deal passing on to the creditor what a default settlement carries.
close_deal_default_forwarded(d, c, p) ==
    IF p.id \notin DOMAIN d.deals THEN Fail(d, << >>, ILLEGAL_ARGUMENT)
    ELSE
      LET deal == d.deals[p.id]
          loan_token == d.tokens[deal.loan_token_id]
          byBorrower == c.sender = deal.borrower
          ops == IF ~byBorrower
                 THEN (IF c.amount > 0 THEN <<Send(deal.creditor, c.amount)>> ELSE << >>)
                 ELSE IF loan_token.type = XTZ
                 THEN <<Send(deal.creditor, c.amount)>>
                 ELSE <<transfer_tokens(deal.borrower, deal.creditor,
                                        deal.loan_amount + deal.reward, loan_token)>>
          deposit_receiver == IF byBorrower THEN deal.borrower ELSE deal.creditor
          r == refund_deposit(d, ops, deposit_receiver, deal.deposit_token_id,
                              deal.deposit_amount)
      IN  IF ~(c.sender = deal.borrower \/ c.sender = deal.creditor
               \/ c.sender \in d.admins)
          THEN Fail(d, << >>, ACCESS_DENIED)
          ELSE IF byBorrower /\ loan_token.type = XTZ
                  /\ deal.loan_amount + deal.reward # c.amount
          THEN Fail(d, << >>, ILLEGAL_TX_AMOUNT)
          ELSE IF byBorrower /\ loan_token.type # XTZ /\ c.amount # 0
          THEN Fail(d, << >>, ILLEGAL_TX_AMOUNT)
          ELSE IF ~byBorrower /\ ~(deal.exp < c.now)
          THEN Fail(d, << >>, ACCESS_DENIED)
          ELSE IF r.err # OK THEN r
          ELSE Done([r.data EXCEPT !.deals = Del(@, p.id)], r.ops)

close_deal(d, c, p) ==
    IF p.id \notin DOMAIN d.deals THEN Fail(d, << >>, ILLEGAL_ARGUMENT)
    ELSE
      LET deal == d.deals[p.id]
          loan_token == d.tokens[deal.loan_token_id]
          byBorrower == c.sender = deal.borrower
          ops == IF ~byBorrower THEN << >>
                 ELSE IF loan_token.type = XTZ
                 THEN <<Send(deal.creditor, c.amount)>>
                 ELSE <<transfer_tokens(deal.borrower, deal.creditor,
                                        deal.loan_amount + deal.reward, loan_token)>>
          deposit_receiver == IF byBorrower THEN deal.borrower ELSE deal.creditor
          r == refund_deposit(d, ops, deposit_receiver, deal.deposit_token_id,
                              deal.deposit_amount)
      IN  IF ~(c.sender = deal.borrower \/ c.sender = deal.creditor
               \/ c.sender \in d.admins)
          THEN Fail(d, << >>, ACCESS_DENIED)
          ELSE IF byBorrower /\ loan_token.type = XTZ
                  /\ deal.loan_amount + deal.reward # c.amount
          THEN Fail(d, << >>, ILLEGAL_TX_AMOUNT)
          ELSE IF byBorrower /\ loan_token.type # XTZ /\ c.amount # 0
          THEN Fail(d, << >>, ILLEGAL_TX_AMOUNT)
          ELSE IF ~byBorrower /\ ~(deal.exp < c.now)
          THEN Fail(d, << >>, ACCESS_DENIED)
          ELSE IF r.err # OK THEN r
          ELSE Done([r.data EXCEPT !.deals = Del(@, p.id)], r.ops)


(* ------------------------------------------------------------------ host *)
\* Balances as the host and the token contracts keep them.
Move(f, from, to, amount) ==
    [h \in DOMAIN f |-> f[h] - (IF h = from THEN amount ELSE 0)
                             + (IF h = to THEN amount ELSE 0)]

\* One emitted operation applied to the balances b = [xtz, tok].  A native
\* transfer needs the contract to hold the amount (and the host refuses an
\* empty transfer to an implicit account); a token transfer needs a token
\* contract of the addressed standard and a sufficient balance of the source
\* (callers have approved the contract as spender/operator).
ApplyOp(b, op) ==
    IF op.kind = "set_delegate" THEN [ok |-> TRUE, xtz |-> b.xtz, tok |-> b.tok]
    ELSE IF op.kind = "send"
    THEN IF op.amount > 0 /\ b.xtz[Self] >= op.amount
         THEN [ok |-> TRUE, xtz |-> Move(b.xtz, Self, op.to, op.amount), tok |-> b.tok]
         ELSE [ok |-> FALSE, xtz |-> b.xtz, tok |-> b.tok]
    ELSE IF /\ op.address \in Ledgers
            /\ LedgerStd(op.address) = (IF op.kind = "fa12" THEN FA12 ELSE FA20)
            /\ op.token_id = 0
            /\ b.tok[op.address][op.from] >= op.amount
    THEN [ok |-> TRUE, xtz |-> b.xtz,
          tok |-> [b.tok EXCEPT ![op.address] = Move(@, op.from, op.to, op.amount)]]
    ELSE [ok |-> FALSE, xtz |-> b.xtz, tok |-> b.tok]

\* The operations of a call applied in order; the first failure stops them.
RECURSIVE ApplyOps(_, _)
ApplyOps(b, ops) ==
    IF ops = << >> THEN [ok |-> TRUE, xtz |-> b.xtz, tok |-> b.tok]
    ELSE LET r == ApplyOp(b, Head(ops))
         IN  IF r.ok THEN ApplyOps(r, Tail(ops)) ELSE r

\* A host that keeps what a failed call had reached.
Commit_partial(err, pre, post) == post

\* A failed call leaves nothing behind: the host discards the storage the
\* entry point had reached, the credited amount and the operations applied.
Commit(err, pre, post) == IF err = OK THEN post ELSE pre

\* The entry points by name.
Handler(ep, d, c, p) ==
    CASE ep = "default"          -> default(d, c, p)
      [] ep = "withdraw"         -> withdraw(d, c, p)
      [] ep = "add_admin"        -> add_admin(d, c, p)
      [] ep = "remove_admin"     -> remove_admin(d, c, p)
      [] ep = "delegate"         -> delegate(d, c, p)
      [] ep = "pause"            -> pause_ep(d, c, p)
      [] ep = "set_time"         -> set_time(d, c, p)
      [] ep = "add_token"        -> add_token(d, c, p)
      [] ep = "set_token_active" -> set_token_active(d, c, p)
      [] ep = "add_loan"         -> add_loan(d, c, p)
      [] ep = "cancel_loan"      -> cancel_loan(d, c, p)
      [] ep = "make_deal"        -> make_deal(d, c, p)
      [] ep = "close_deal"       -> close_deal(d, c, p)

\* The state a call runs in: the storage, the balances and the clock.
St == [data |-> Data, xtz |-> xtz, tok |-> tok, now |-> now]

\* The host lets `sender` attach `amount` only out of its own balance.
CanCall(st, sender, amount) == st.xtz[sender] >= amount

\* One call of entry point ep in state st: the attached amount is credited
\* to the contract before the entry point runs (sp.balance counts it), the
\* emitted operations are applied after it returns, and the call is
\* committed or rolled back as a whole.  The result has the error (OK when
\* none), the state the call leaves and the operations that were applied.
Exec(st, ep, sender, amount, p) ==
    LET c        == [sender |-> sender, amount |-> amount, now |-> st.now,
                     balance |-> st.xtz[Self] + amount]
        r        == Handler(ep, st.data, c, p)
        credited == [xtz |-> Move(st.xtz, sender, Self, amount), tok |-> st.tok]
        applied  == IF r.err = OK THEN ApplyOps(credited, r.ops)
                    ELSE [ok |-> TRUE, xtz |-> credited.xtz, tok |-> credited.tok]
        err      == IF r.err # OK THEN r.err
                    ELSE IF ~applied.ok THEN OP_FAILED ELSE OK
        post     == [data |-> r.data, xtz |-> applied.xtz, tok |-> applied.tok,
                     now |-> st.now]
    IN  [err |-> err, st |-> Commit(err, st, post),
         ops |-> IF err = OK THEN r.ops ELSE << >>]

(* --------------------------------------------------------------- history *)
\* What holder h holds of a catalog entry's asset.
Holding(st, token, h) ==
    IF token.type = XTZ THEN st.xtz[h]
    ELSE IF token.address \in Ledgers THEN st.tok[token.address][h]
    ELSE 0

\* The deposit payouts among the operations of a call.
Refunds(ops) ==
    LET r == SelectSeq(ops, LAMBDA o : o.refund)
    IN  [i \in 1..Len(r) |-> [to |-> r[i].to, amount |-> r[i].amount]]

\* The lineage of a deal: the loan request it was made from.
LineageOf(b, deal) == CHOOSE l \in DOMAIN b : b[l].deal = deal

\* book after an applied call o of ep by sender with parameters p in state pre.
BookAfter(b, ep, sender, p, pre, o) ==
    CASE ep = "add_loan" ->
           LET token == pre.data.tokens[p.deposit_token_id]
           IN  Put(b, o.st.data.nloan,
                   [st |-> "Requested", deal |-> 0, paid |-> << >>,
                    borrower |-> sender, creditor |-> None,
                    taken |-> Holding(o.st, token, Self) - Holding(pre, token, Self)])
      [] ep = "cancel_loan" ->
           [b EXCEPT ![p.id].st = "Cancelled", ![p.id].paid = @ \o Refunds(o.ops)]
      [] ep = "make_deal" ->
           [b EXCEPT ![p.id].st = "Funded", ![p.id].deal = o.st.data.ndeal,
                     ![p.id].creditor = Some(sender)]
      [] ep = "close_deal" ->
           [b EXCEPT ![LineageOf(b, p.id)].st =
                         IF sender = pre.data.deals[p.id].borrower
                         THEN "RepaidClosed" ELSE "DefaultClosed",
                     ![LineageOf(b, p.id)].paid = @ \o Refunds(o.ops)]
      [] OTHER -> b

\* snap after an applied call: add_loan records the state it ran in; a
\* cancel_loan of that request by the borrower as the very next applied call
\* marks the round trip done; any other applied call forgets it.
SnapAfter(sn, ep, sender, p, pre, o) ==
    CASE ep = "add_loan" ->
           Some([id |-> o.st.data.nloan, borrower |-> sender,
                 deposit_token_id |-> p.deposit_token_id,
                 deposit_amount |-> p.deposit_amount,
                 pre |-> pre, done |-> FALSE])
      [] ep = "cancel_loan" /\ sn # None ->
           IF ~sn[1].done /\ sn[1].id = p.id /\ sn[1].borrower = sender
           THEN Some([sn[1] EXCEPT !.done = TRUE]) ELSE None
      [] OTHER -> None

(* ---------------------------------------------------------------- inputs *)
Amounts    == 0..2                      \* sp.amount of loan and deal calls
AdminAmounts == 0..1                    \* sp.amount of registry calls
TokenIds   == 0..MaxTokens              \* MaxTokens is never a catalog id
LoanIds    == 1..(MaxLoans + 1)
DealIds    == 0..MaxLoans
AdminArgs  == {creator, "userA"}
Borrowers  == {"userA"}
Donors     == {creator}                 \* senders of default, receivers of withdraw
Bakers     == {None, Some("tz1baker")}
TimePairs  == {[min |-> 7 * DAY, max |-> 180 * DAY], [min |-> 1 * DAY, max |-> 366 * DAY],
               [min |-> 0, max |-> 366 * DAY], [min |-> 180 * DAY, max |-> 7 * DAY]}
Durations  == {1 * DAY, 7 * DAY, 456 * DAY}
Validities == {None, Some(7 * DAY)}
Descriptors ==
    {[name |-> "XTZ", address |-> Self, type |-> XTZ, token_id |-> 0, decimals |-> 6],
     [name |-> "_BTC", address |-> "KT1btc", type |-> FA12, token_id |-> 0, decimals |-> 8],
     [name |-> "_ETH", address |-> "KT1eth", type |-> FA20, token_id |-> 0, decimals |-> 18],
     [name |-> "_BAD", address |-> "KT1btc", type |-> 3, token_id |-> 0, decimals |-> 8]}
\* The parameters of every entry point.
NoParams        == {<< >>}
WithdrawParams  == [to : Donors, id : TokenIds, amount : Amounts]
AdminParams     == [address : AdminArgs]
DelegateParams  == [baker : Bakers]
PauseParams     == [pause : BOOLEAN]
ActiveParams    == [id : TokenIds, active : BOOLEAN]
LoanIdParams    == [id : LoanIds]
DealIdParams    == [id : DealIds]
\* Loan requests.  The loan asset is entry 0 and the deposit asset entry 1
\* of the catalog in every request that can pass (the catalog decides which
\* of them is native): with and without a deposit; without reward and with
\* a validity; a zero loan amount and the durations below and above the
\* bounds.  The other pairs of ids are equal or unknown.
LoanParams ==
    {p \in [loan_token_id : TokenIds, loan_amount : {1}, reward : {1},
            deposit_token_id : TokenIds, deposit_amount : 0..1,
            time : {7 * DAY}, validity : {None}] :
        p.loan_token_id <= p.deposit_token_id}
    \cup
    [loan_token_id : {0}, loan_amount : {1}, reward : {0},
     deposit_token_id : {1}, deposit_amount : {1},
     time : {7 * DAY}, validity : {Some(7 * DAY)}]
    \cup
    [loan_token_id : {0}, loan_amount : 0..1, reward : {1},
     deposit_token_id : {1}, deposit_amount : {1},
     time : Durations, validity : {None}]

(* --------------------------------------------------------------- actions *)
Init ==
    /\ pause = InitData.pause /\ baker = InitData.baker /\ admins = InitData.admins
    /\ time = InitData.time /\ ntoken = InitData.ntoken /\ tokens = InitData.tokens
    /\ nloan = InitData.nloan /\ loans = InitData.loans
    /\ ndeal = InitData.ndeal /\ deals = InitData.deals
    /\ xtz = [h \in Holders |-> IF h = Self THEN 0 ELSE InitXtz]
    /\ tok = [a \in Ledgers |-> [h \in Holders |-> IF h = Self THEN 0 ELSE InitTok]]
    /\ now = 0
    /\ book = << >>
    /\ snap = None
    /\ last = "origination"

\* One call of entry point ep by sender with amount attached.  A failed
\* call leaves no trace in the state.
Call(ep, sender, amount, p) ==
    /\ CanCall(St, sender, amount)
    /\ \E o \in {Exec(St, ep, sender, amount, p)} :
           /\ pause'  = o.st.data.pause
           /\ baker'  = o.st.data.baker
           /\ admins' = o.st.data.admins
           /\ time'   = o.st.data.time
           /\ ntoken' = o.st.data.ntoken
           /\ tokens' = o.st.data.tokens
           /\ nloan'  = o.st.data.nloan
           /\ loans'  = o.st.data.loans
           /\ ndeal'  = o.st.data.ndeal
           /\ deals'  = o.st.data.deals
           /\ xtz'    = o.st.xtz
           /\ tok'    = o.st.tok
           /\ now'    = o.st.now
           /\ book'   = IF o.err = OK THEN BookAfter(book, ep, sender, p, St, o) ELSE book
           /\ snap'   = IF o.err = OK THEN SnapAfter(snap, ep, sender, p, St, o) ELSE snap
           /\ last'   = IF o.err = OK THEN ep ELSE last

Default ==
    \E sender \in Donors, amount \in AdminAmounts, p \in NoParams :
        Call("default", sender, amount, p)

Withdraw ==
    \E sender \in Users, amount \in AdminAmounts, p \in WithdrawParams :
        Call("withdraw", sender, amount, p)

AddAdmin ==
    \E sender \in Users, amount \in AdminAmounts, p \in AdminParams :
        Call("add_admin", sender, amount, p)

RemoveAdmin ==
    \E sender \in Users, amount \in AdminAmounts, p \in AdminParams :
        Call("remove_admin", sender, amount, p)

Delegate ==
    \E sender \in Users, amount \in AdminAmounts, p \in DelegateParams :
        Call("delegate", sender, amount, p)

Pause ==
    \E sender \in Users, amount \in AdminAmounts, p \in PauseParams :
        Call("pause", sender, amount, p)

SetTime ==
    \E sender \in Users, amount \in AdminAmounts, p \in TimePairs :
        Call("set_time", sender, amount, p)

AddToken ==
    \E sender \in Users, amount \in AdminAmounts, p \in Descriptors :
        /\ ntoken < MaxTokens
        /\ Call("add_token", sender, amount, p)

SetTokenActive ==
    \E sender \in Users, amount \in AdminAmounts, p \in ActiveParams :
        Call("set_token_active", sender, amount, p)

AddLoan ==
    \E sender \in Borrowers, amount \in AdminAmounts, p \in LoanParams :
        /\ nloan < MaxLoans
        /\ Call("add_loan", sender, amount, p)

CancelLoan ==
    \E sender \in Users, amount \in AdminAmounts, p \in LoanIdParams :
        Call("cancel_loan", sender, amount, p)

MakeDeal ==
    \E sender \in Users, amount \in Amounts, p \in LoanIdParams :
        Call("make_deal", sender, amount, p)

CloseDeal ==
    \E sender \in Users, amount \in Amounts, p \in DealIdParams :
        Call("close_deal", sender, amount, p)

\* The host clock advances between calls.
Tick ==
    /\ now < MaxTicks * 7 * DAY
    /\ now' = now + 7 * DAY
    /\ last' = "tick"
    /\ UNCHANGED <<storage, xtz, tok, book, snap>>

\* The whole contract.
Next ==
    \/ Default \/ Withdraw \/ AddAdmin \/ RemoveAdmin \/ Delegate \/ Pause
    \/ SetTime \/ AddToken \/ SetTokenActive
    \/ AddLoan \/ CancelLoan \/ MakeDeal \/ CloseDeal \/ Tick

Spec == Init /\ [][Next]_vars

\* The registry alone: administration, configuration, catalog and the free
\* native balance, with no loan request made.
NextRegistry ==
    \/ Default \/ Withdraw \/ AddAdmin \/ RemoveAdmin \/ Delegate \/ Pause
    \/ SetTime \/ AddToken \/ SetTokenActive

SpecRegistry == Init /\ [][NextRegistry]_vars

\* The loan book and the deal book over every catalog, with the pause flag,
\* the duration bounds, the baker and the active flags as constructed.
NextEscrow ==
    \/ AddToken \/ AddAdmin \/ Withdraw
    \/ AddLoan \/ CancelLoan \/ MakeDeal \/ CloseDeal \/ Tick

SpecEscrow == Init /\ [][NextEscrow]_vars

\* The loan book and the deal book under the pause flag: creation switched
\* off and on by the admins while requests and deals are live.
NextPause ==
    \/ AddToken \/ Pause
    \/ AddLoan \/ CancelLoan \/ MakeDeal \/ CloseDeal \/ Tick

SpecPause == Init /\ [][NextPause]_vars

\* The making of loan requests against a catalog whose entries are switched
\* off and on and against duration bounds that are changed.
NextRequest ==
    \/ AddToken \/ SetTime \/ SetTokenActive
    \/ AddLoan \/ CancelLoan \/ Tick

SpecRequest == Init /\ [][NextRequest]_vars

\* The admin set changing while requests and deals are live.
NextAdmins ==
    \/ AddAdmin \/ RemoveAdmin \/ AddToken
    \/ AddLoan \/ CancelLoan \/ MakeDeal \/ CloseDeal \/ Tick

SpecAdmins == Init /\ [][NextAdmins]_vars

\* The loan book and the deal book against a catalog whose entries are
\* switched off and on while requests and deals are live.
NextActive ==
    \/ AddToken \/ SetTokenActive
    \/ AddLoan \/ CancelLoan \/ MakeDeal \/ CloseDeal \/ Tick

SpecActive == Init /\ [][NextActive]_vars

(* ---------------------------------------------------------------- claims *)
\* The deposits of the records of map m (loans or deals) held in asset id.
RECURSIVE SumDeposits(_, _, _)
SumDeposits(m, keys, id) ==
    IF keys = {} THEN 0
    ELSE LET k == CHOOSE x \in keys : TRUE
         IN  (IF m[k].deposit_token_id = id THEN m[k].deposit_amount ELSE 0)
             + SumDeposits(m, keys \ {k}, id)

Escrowed(id) == SumDeposits(loans, DOMAIN loans, id) + SumDeposits(deals, DOMAIN deals, id)

\* C1: in every reachable state, the locked_amount of every catalog entry is
\* the sum of the deposit amounts of the live loan requests and the live
\* deals whose deposit_token_id is that entry.
C1_LockedIsEscrowed ==
    \A id \in DOMAIN tokens : tokens[id].locked_amount = Escrowed(id)

\* C1 witness: a live loan request and a live deal each hold a deposit in the
\* same asset, whose locked_amount counts both.
C1_Witness ==
    /\ \E l \in DOMAIN loans, k \in DOMAIN deals :
          /\ loans[l].deposit_token_id = deals[k].deposit_token_id
          /\ loans[l].deposit_amount > 0 /\ deals[k].deposit_amount > 0
          /\ tokens[loans[l].deposit_token_id].locked_amount = 2
    /\ last = "add_loan"

\* C2: in every reachable state, the locked_amount of every catalog entry is
\* at most what the contract holds of that entry's asset (its native balance
\* for an entry of type XTZ).
C2_LockedWithinBalance ==
    \A id \in DOMAIN tokens : tokens[id].locked_amount <= Holding(St, tokens[id], Self)

\* The native deposits of all live loan requests and deals, over every
\* catalog entry of type XTZ.
RECURSIVE SumNative(_)
SumNative(ids) ==
    IF ids = {} THEN 0
    ELSE LET i == CHOOSE x \in ids : TRUE
         IN  (IF tokens[i].type = XTZ THEN Escrowed(i) ELSE 0) + SumNative(ids \ {i})

\* C3: after a successful withdraw the contract's native balance still
\* covers the native deposits of all live loan requests and deals.
C3_WithdrawKeepsEscrow ==
    last = "withdraw" => xtz[Self] >= SumNative(DOMAIN tokens)

\* Every entry point with the parameters the actions draw for it.
EntryPoints ==
    {"default", "withdraw", "add_admin", "remove_admin", "delegate", "pause",
     "set_time", "add_token", "set_token_active",
     "add_loan", "cancel_loan", "make_deal", "close_deal"}

ParamsOf(ep) ==
    CASE ep = "default"          -> NoParams
      [] ep = "withdraw"         -> WithdrawParams
      [] ep = "add_admin"        -> AdminParams
      [] ep = "remove_admin"     -> AdminParams
      [] ep = "delegate"         -> DelegateParams
      [] ep = "pause"            -> PauseParams
      [] ep = "set_time"         -> TimePairs
      [] ep = "add_token"        -> Descriptors
      [] ep = "set_token_active" -> ActiveParams
      [] ep = "add_loan"         -> LoanParams
      [] ep = "cancel_loan"      -> LoanIdParams
      [] ep = "make_deal"        -> LoanIdParams
      [] ep = "close_deal"       -> DealIdParams

Terminal == {"Cancelled", "RepaidClosed", "DefaultClosed"}

\* C5: over every sequence of calls and for every lineage, the contract pays
\* the deposit out at most once; a live lineage has not been paid; a closed
\* lineage with a deposit has been paid exactly the amount add_loan took in,
\* to the borrower after cancel_loan or a repayment and to the creditor after
\* a default settlement.
C5_DepositPaidOnce ==
    \A l \in DOMAIN book :
        LET e == book[l]
        IN  /\ Len(e.paid) <= 1
            /\ e.st \notin Terminal => e.paid = << >>
            /\ e.st \in Terminal /\ e.taken = 0 => e.paid = << >>
            /\ e.st \in Terminal /\ e.taken > 0 =>
                  /\ Len(e.paid) = 1
                  /\ e.paid[1].amount = e.taken
                  /\ e.paid[1].to = IF e.st = "DefaultClosed"
                                    THEN e.creditor[1] ELSE e.borrower

\* C5 witness: one lineage was settled by default with its deposit paid to
\* the creditor, another was cancelled with its deposit back at the borrower.
C5_Witness ==
    /\ \E l \in DOMAIN book :
          /\ book[l].st = "DefaultClosed"
          /\ book[l].paid = <<[to |-> book[l].creditor[1], amount |-> 1]>>
    /\ \E l \in DOMAIN book :
          /\ book[l].st = "Cancelled"
          /\ book[l].paid = <<[to |-> book[l].borrower, amount |-> 1]>>

\* The state a call runs in when the pause flag is b.
StPaused(b) == [St EXCEPT !.data.pause = b]

\* The lineages and the two maps agree: a request is live exactly while its
\* lineage is Requested, a deal exactly while its lineage is Funded.
C6_Books ==
    /\ DOMAIN loans \subseteq DOMAIN book
    /\ \A k \in DOMAIN deals : \E l \in DOMAIN book : book[l].deal = k
    /\ \A l \in DOMAIN book :
          /\ (book[l].st = "Requested") <=> (l \in DOMAIN loans)
          /\ (book[l].st = "Funded") <=> (book[l].deal \in DOMAIN deals)
          /\ (book[l].deal # 0) <=> (book[l].st \in {"Funded", "RepaidClosed", "DefaultClosed"})

\* Every call on the id of a deleted request or deal fails: cancel_loan with
\* IllegalTxAmount when a payment is attached and IllegalArgument otherwise,
\* make_deal with Paused while paused and IllegalArgument otherwise,
\* close_deal with IllegalArgument.
C6_DeletedRejected ==
    \A l \in DOMAIN book : \A sender \in Users, amount \in Amounts, b \in BOOLEAN :
        CanCall(St, sender, amount) =>
            /\ book[l].st # "Requested" =>
                  /\ Exec(StPaused(b), "cancel_loan", sender, amount, [id |-> l]).err
                        = IF amount # 0 THEN ILLEGAL_TX_AMOUNT ELSE ILLEGAL_ARGUMENT
                  /\ Exec(StPaused(b), "make_deal", sender, amount, [id |-> l]).err
                        = IF b THEN PAUSED ELSE ILLEGAL_ARGUMENT
            /\ book[l].st \in {"RepaidClosed", "DefaultClosed"} =>
                  Exec(StPaused(b), "close_deal", sender, amount, [id |-> book[l].deal]).err
                        = ILLEGAL_ARGUMENT

\* The steps of a lineage, each by the call that takes it.
C6_Step ==
    \A l \in DOMAIN book :
        /\ l \in DOMAIN book'
        /\ \/ book'[l].st = book[l].st
           \/ book[l].st = "Requested" /\ book'[l].st = "Cancelled" /\ last' = "cancel_loan"
           \/ book[l].st = "Requested" /\ book'[l].st = "Funded" /\ last' = "make_deal"
           \/ book[l].st = "Funded" /\ book'[l].st = "RepaidClosed" /\ last' = "close_deal"
           \/ book[l].st = "Funded" /\ book'[l].st = "DefaultClosed" /\ last' = "close_deal"

\* C6: a lineage takes only the steps Requested -> Cancelled (cancel_loan),
\* Requested -> Funded (make_deal), Funded -> RepaidClosed and Funded ->
\* DefaultClosed (close_deal); a record is live exactly in the states
\* Requested and Funded, so that a deleted record never reappears; and every
\* later cancel_loan, make_deal or close_deal on a deleted id fails, with
\* IllegalArgument unless cancel_loan carries a payment (IllegalTxAmount) or
\* make_deal is called while paused (Paused).
C6_Lineage == [](C6_Books /\ C6_DeletedRejected) /\ [][C6_Step]_vars

\* C6 as stated: every call of cancel_loan, make_deal or close_deal on the id
\* of a deleted record fails with IllegalArgument.
C6_DeletedIllegalArgument ==
    \A l \in DOMAIN book : \A sender \in Users, amount \in Amounts :
        CanCall(St, sender, amount) =>
            /\ book[l].st # "Requested" =>
                  /\ Exec(St, "cancel_loan", sender, amount, [id |-> l]).err = ILLEGAL_ARGUMENT
                  /\ Exec(St, "make_deal", sender, amount, [id |-> l]).err = ILLEGAL_ARGUMENT
            /\ book[l].st \in {"RepaidClosed", "DefaultClosed"} =>
                  Exec(St, "close_deal", sender, amount, [id |-> book[l].deal]).err
                        = ILLEGAL_ARGUMENT

\* C6 witness: a cancelled lineage and a lineage closed by repayment, both
\* records deleted, with a caller able to attach a payment.
C6_Witness ==
    /\ \E l \in DOMAIN book : book[l].st = "Cancelled" /\ l \notin DOMAIN loans
    /\ \E l \in DOMAIN book :
          book[l].st = "RepaidClosed" /\ book[l].deal \notin DOMAIN deals
    /\ \E sender \in Users : CanCall(St, sender, 1)
    /\ last = "close_deal"

\* The operations reserved to the admins.
AdminOps ==
    {"withdraw", "add_admin", "remove_admin", "delegate", "pause",
     "set_time", "add_token", "set_token_active"}

\* C7: a call of an admin-only operation by a caller outside the admin set
\* always fails and leaves the state unchanged, for every argument and every
\* attached amount; the failure is AccessDenied when no payment is attached
\* and for withdraw, and IllegalTxAmount when a payment is attached to any of
\* the other seven.
C7_NonAdminRejected ==
    \A ep \in AdminOps, sender \in Users \ admins, amount \in Amounts :
        \A p \in ParamsOf(ep) :
            CanCall(St, sender, amount) =>
                \E o \in {Exec(St, ep, sender, amount, p)} :
                    /\ o.err = IF amount # 0 /\ ep # "withdraw"
                               THEN ILLEGAL_TX_AMOUNT ELSE ACCESS_DENIED
                    /\ o.st = St

\* C7 as stated: the failure is AccessDenied for every attached amount.
C7_NonAdminAccessDenied ==
    \A ep \in AdminOps, sender \in Users \ admins, amount \in Amounts :
        \A p \in ParamsOf(ep) :
            CanCall(St, sender, amount) =>
                \E o \in {Exec(St, ep, sender, amount, p)} :
                    o.err = ACCESS_DENIED /\ o.st = St

\* C7 witness: a caller that was an admin and has been removed, holding
\* native currency to attach, while the catalog has an entry and the
\* contract a free balance the admins can withdraw.
C7_Witness ==
    /\ last = "remove_admin"
    /\ "userA" \notin admins /\ xtz["userA"] >= 1
    /\ 0 \in DOMAIN tokens /\ tokens[0].type = XTZ /\ xtz[Self] >= 1
    /\ Exec(St, "withdraw", creator, 0, [to |-> creator, id |-> 0, amount |-> 1]).err = OK

\* C8: in every reachable state the creator is in the admin set, and
\* remove_admin of the creator fails for every caller and attached amount.
C8_CreatorIsAdmin ==
    /\ creator \in admins
    /\ \A sender \in Users, amount \in Amounts :
          CanCall(St, sender, amount) =>
              Exec(St, "remove_admin", sender, amount, [address |-> creator]).err # OK

\* C8 witness: a second admin has just been added, and its own remove_admin
\* of the creator is refused with IllegalArgument.
C8_Witness ==
    /\ last = "add_admin"
    /\ "userA" \in admins
    /\ Exec(St, "remove_admin", "userA", 0, [address |-> creator]).err = ILLEGAL_ARGUMENT

\* The outcome of each "set" operation called by sender with amount attached
\* and with the value in effect: of pause, set_time and delegate, and of
\* set_token_active for every entry of the catalog.
SetSame(sender, amount) ==
    {Exec(St, "pause", sender, amount, [pause |-> pause]),
     Exec(St, "set_time", sender, amount, time),
     Exec(St, "delegate", sender, amount, [baker |-> baker])}
    \cup {Exec(St, "set_token_active", sender, amount,
               [id |-> id, active |-> tokens[id].active]) : id \in DOMAIN tokens}

\* C9: pause, set_time, delegate and set_token_active called by an admin
\* with the value already in effect always fail and leave the whole state
\* unchanged; the failure is IllegalArgument when no payment is attached and
\* IllegalTxAmount when one is.
C9_SameValueRejected ==
    \A sender \in admins, amount \in Amounts :
        CanCall(St, sender, amount) =>
            \A o \in SetSame(sender, amount) :
                /\ o.err = IF amount # 0 THEN ILLEGAL_TX_AMOUNT ELSE ILLEGAL_ARGUMENT
                /\ o.st = St

\* C9 as stated: the failure is IllegalArgument on every such call.
C9_SameValueIllegalArgument ==
    \A sender \in admins, amount \in Amounts :
        CanCall(St, sender, amount) =>
            \A o \in SetSame(sender, amount) :
                o.err = ILLEGAL_ARGUMENT /\ o.st = St

\* C9 witness: every one of the four values has been set away from the
\* value of construction, the last of them by set_token_active.
C9_Witness ==
    /\ last = "set_token_active"
    /\ pause /\ baker # None /\ time # InitData.time
    /\ \E id \in DOMAIN tokens : ~tokens[id].active

\* C10: when add_loan has been applied and the next applied call is
\* cancel_loan of the new request by its borrower, the storage is the one
\* add_loan started from except for nloan, which is one more, and every
\* native and token balance is the one add_loan started from; so are the
\* contract's and the borrower's holdings of the deposit asset and its
\* locked_amount, for native and token deposits and for a deposit of 0.
C10_RoundTrip ==
    snap # None /\ snap[1].done =>
        /\ [Data EXCEPT !.nloan = snap[1].pre.data.nloan] = snap[1].pre.data
        /\ nloan = snap[1].pre.data.nloan + 1
        /\ xtz = snap[1].pre.xtz
        /\ tok = snap[1].pre.tok

\* C10 witness: the round trip has just been made with a token deposit of 1.
C10_Witness ==
    /\ snap # None /\ snap[1].done
    /\ last = "cancel_loan"
    /\ snap[1].deposit_amount = 1
    /\ tokens[snap[1].deposit_token_id].type # XTZ

\* C11: while pause is true, every add_loan and every make_deal fails with
\* Paused and changes nothing, and every cancel_loan and close_deal has the
\* outcome it would have with pause false: the same error or success, the
\* same transfers and the same resulting storage and balances.
C11_PauseGatesCreation ==
    pause =>
        /\ \A sender \in Users, amount \in Amounts, p \in LoanParams :
              CanCall(St, sender, amount) =>
                  \E o \in {Exec(St, "add_loan", sender, amount, p)} :
                      o.err = PAUSED /\ o.st = St
        /\ \A sender \in Users, amount \in Amounts, p \in LoanIdParams :
              CanCall(St, sender, amount) =>
                  \E o \in {Exec(St, "make_deal", sender, amount, p)} :
                      o.err = PAUSED /\ o.st = St
        /\ \A ep \in {"cancel_loan", "close_deal"}, sender \in Users, amount \in Amounts :
              \A p \in ParamsOf(ep) :
                  CanCall(St, sender, amount) =>
                      \E a \in {Exec(St, ep, sender, amount, p)},
                         b \in {Exec(StPaused(FALSE), ep, sender, amount, p)} :
                          /\ a.err = b.err
                          /\ a.ops = b.ops
                          /\ a.st = [b.st EXCEPT !.data.pause = TRUE]

\* C11 witness: the contract has just been paused with a request and a deal
\* live; the borrower's cancel_loan and repayment go through, and a
\* make_deal on the live request that would be served unpaused is refused.
C11_Witness ==
    /\ pause /\ last = "pause"
    /\ \E l \in DOMAIN loans :
          /\ Exec(St, "cancel_loan", loans[l].borrower, 0, [id |-> l]).err = OK
          /\ \E sender \in Users, amount \in Amounts :
                /\ CanCall(St, sender, amount)
                /\ Exec(StPaused(FALSE), "make_deal", sender, amount, [id |-> l]).err = OK
    /\ \E k \in DOMAIN deals, amount \in Amounts :
          /\ CanCall(St, deals[k].borrower, amount)
          /\ Exec(St, "close_deal", deals[k].borrower, amount, [id |-> k]).err = OK

\* The outcome of a default settlement of deal k that went through: the only
\* transfer is the deposit, to the creditor; the deal is deleted.
DefaultSettled(k, o) ==
    /\ o.err = OK
    /\ Len(o.ops) = Len(Refunds(o.ops))
    /\ Refunds(o.ops) = IF deals[k].deposit_amount > 0
                        THEN <<[to |-> deals[k].creditor, amount |-> deals[k].deposit_amount]>>
                        ELSE << >>
    /\ k \notin DOMAIN o.st.data.deals

\* C12: close_deal of a live deal by its creditor, or by an admin who is not
\* its borrower, fails with AccessDenied while now < exp and goes through
\* from now = exp on, paying the deposit to the creditor and moving nothing
\* of the loan asset.
C12_DefaultAtExpiry ==
    \A k \in DOMAIN deals : \A sender \in Users \ {deals[k].borrower}, amount \in Amounts :
        (CanCall(St, sender, amount) /\ (sender = deals[k].creditor \/ sender \in admins)) =>
            \E o \in {Exec(St, "close_deal", sender, amount, [id |-> k])} :
                IF now < deals[k].exp THEN o.err = ACCESS_DENIED /\ o.st = St
                ELSE DefaultSettled(k, o)

\* State st with amount of a catalog entry's asset moved between holders.
Paid(st, token, from, to, amount) ==
    IF token.type = XTZ THEN [st EXCEPT !.xtz = Move(@, from, to, amount)]
    ELSE [st EXCEPT !.tok[token.address] = Move(@, from, to, amount)]

\* The state after the deposit of record r (a loan request or a deal) has
\* been released to holder h.
Released(st, r, h) ==
    Paid([st EXCEPT !.data.tokens[r.deposit_token_id].locked_amount = @ - r.deposit_amount],
         st.data.tokens[r.deposit_token_id], Self, h, r.deposit_amount)

\* The state after the borrower's repayment of deal k.
Repaid(k) ==
    LET deal == deals[k]
        st1  == [St EXCEPT !.data.deals = Del(@, k)]
        st2  == Paid(st1, tokens[deal.loan_token_id], deal.borrower, deal.creditor,
                     deal.loan_amount + deal.reward)
    IN  Released(st2, deal, deal.borrower)

Dealt(l, sender) ==
    LET loan == loans[l]
        deal == [ts |-> now, borrower |-> loan.borrower, creditor |-> sender,
                 loan_token_id |-> loan.loan_token_id, loan_amount |-> loan.loan_amount,
                 reward |-> loan.reward, exp |-> now + loan.time,
                 deposit_token_id |-> loan.deposit_token_id,
                 deposit_amount |-> loan.deposit_amount]
        st1  == [St EXCEPT !.data.ndeal = @ + 1,
                           !.data.deals = Put(@, ndeal + 1, deal),
                           !.data.loans = Del(@, l)]
    IN  Paid(st1, tokens[loan.loan_token_id], sender, loan.borrower, loan.loan_amount)

\* C14: a make_deal that succeeds records a deal under a deal id never used
\* before, with exp = now + the request's duration, the caller as creditor
\* and the borrower, loan asset and amount, reward, deposit asset and amount
\* of the request; it deletes the request and moves exactly loan_amount of
\* the loan asset from the caller to the borrower; every locked_amount, the
\* contract's own balances and all the rest of the state stay as they were.
C14_MakeDealEffect ==
    \A l \in DOMAIN loans : \A sender \in Users, amount \in Amounts :
        CanCall(St, sender, amount) =>
            \E o \in {Exec(St, "make_deal", sender, amount, [id |-> l])} :
                o.err = OK =>
                    /\ o.st = Dealt(l, sender)
                    /\ o.st.data.tokens = tokens
                    /\ o.st.xtz[Self] = xtz[Self]
                    /\ \A a \in Ledgers : o.st.tok[a][Self] = tok[a][Self]
                    /\ (ndeal + 1) \notin DOMAIN deals
                    /\ \A b \in DOMAIN book : book[b].deal # ndeal + 1

\* C14 witness: a second deal has just been made, from a request with a
\* deposit, after the first deal was closed.
C14_Witness ==
    /\ last = "make_deal"
    /\ ndeal = 2 /\ 2 \in DOMAIN deals /\ 1 \notin DOMAIN deals
    /\ deals[2].deposit_amount > 0

\* A request that passes the validation of add_loan in state st: both asset
\* ids known and active and different, a loan amount, a duration within the
\* bounds in effect, and no expiry or one that lies ahead.
ValidRequest(st, p) ==
    /\ p.loan_token_id \in DOMAIN st.data.tokens
    /\ p.deposit_token_id \in DOMAIN st.data.tokens
    /\ st.data.tokens[p.loan_token_id].active
    /\ st.data.tokens[p.deposit_token_id].active
    /\ p.loan_token_id # p.deposit_token_id
    /\ p.loan_amount # 0
    /\ st.data.time.min <= p.time /\ p.time <= st.data.time.max
    /\ p.validity # None => st.now < p.validity[1]

\* The state after add_loan of request p by sender: the deposit with the
\* contract and locked, the request recorded under the next id.
Requested(p, sender) ==
    LET loan == [ts |-> now, borrower |-> sender, loan_token_id |-> p.loan_token_id,
                 loan_amount |-> p.loan_amount, reward |-> p.reward,
                 deposit_token_id |-> p.deposit_token_id,
                 deposit_amount |-> p.deposit_amount,
                 time |-> p.time, validity |-> p.validity]
        st1  == [St EXCEPT !.data.nloan = @ + 1,
                           !.data.loans = Put(@, nloan + 1, loan),
                           !.data.tokens[p.deposit_token_id].locked_amount =
                               @ + p.deposit_amount]
    IN  Paid(st1, tokens[p.deposit_token_id], sender, Self, p.deposit_amount)

\* The attached payment add_loan requires with request p.
DepositPayment(p) ==
    IF tokens[p.deposit_token_id].type = XTZ THEN p.deposit_amount ELSE 0

\* C15: an add_loan that passes the validation, while not paused, fails with
\* IllegalTxAmount unless the attached payment is exactly deposit_amount for
\* a native deposit and zero for a token deposit; otherwise, when the caller
\* holds the deposit, it succeeds: deposit_amount goes from the caller to the
\* contract, locked_amount of the deposit asset rises by exactly
\* deposit_amount and one request is recorded, nothing else changing.
C15_DepositPaymentRule ==
    \A sender \in Users, amount \in Amounts, p \in LoanParams :
        (CanCall(St, sender, amount) /\ ~pause /\ ValidRequest(St, p)) =>
            \E o \in {Exec(St, "add_loan", sender, amount, p)} :
                IF amount # DepositPayment(p)
                THEN o.err = ILLEGAL_TX_AMOUNT /\ o.st = St
                ELSE IF Holding(St, tokens[p.deposit_token_id], sender) >= p.deposit_amount
                THEN o.err = OK /\ o.st = Requested(p, sender)
                ELSE o.err = OP_FAILED /\ o.st = St

\* C15 witness: a request with a token deposit has just been recorded, and
\* the same caller's next one is refused for an attached payment and cannot
\* be served without one.
C15_Witness ==
    /\ last = "add_loan"
    /\ \E l \in DOMAIN loans :
          /\ tokens[loans[l].deposit_token_id].type # XTZ
          /\ loans[l].deposit_amount = 1
          /\ tokens[loans[l].deposit_token_id].locked_amount = 1
          /\ \E p \in LoanParams :
                /\ ValidRequest(St, p) /\ p.deposit_amount = 1
                /\ Exec(St, "add_loan", loans[l].borrower, 1, p).err = ILLEGAL_TX_AMOUNT
                /\ Exec(St, "add_loan", loans[l].borrower, 0, p).err = OP_FAILED

\* C19: an add_loan, while not paused, fails with IllegalArgument and changes
\* nothing if an asset id is unknown or inactive, if the two ids are equal,
\* if loan_amount is 0, if the duration is outside the bounds in effect, or
\* if an expiry is set and is not after now; every other request, among them
\* those with a zero reward or a zero deposit, is accepted when it carries
\* the payment its deposit asks for and the caller holds the deposit.
C19_RequestValidation ==
    \A sender \in Users, amount \in Amounts, p \in LoanParams :
        (CanCall(St, sender, amount) /\ ~pause) =>
            \E o \in {Exec(St, "add_loan", sender, amount, p)} :
                IF ~ValidRequest(St, p)
                THEN o.err = ILLEGAL_ARGUMENT /\ o.st = St
                ELSE o.err # ILLEGAL_ARGUMENT
                     /\ (/\ amount = DepositPayment(p)
                         /\ Holding(St, tokens[p.deposit_token_id], sender) >= p.deposit_amount
                         => o.err = OK)

\* C19 witness: the duration bounds have been widened and the clock has
\* reached an expiry; a request of one day is within the bounds now and was
\* not before, a request with no reward whose expiry is now is refused, and
\* a request with no deposit is accepted.
C19_Witness ==
    /\ time # InitData.time
    /\ 0 \in DOMAIN tokens /\ 1 \in DOMAIN tokens
    /\ now = 7 * DAY
    /\ \E p \in LoanParams :
          /\ p.time = 1 * DAY /\ ValidRequest(St, p)
          /\ ~ValidRequest([St EXCEPT !.data.time = InitData.time], p)
    /\ \E p \in LoanParams :
          /\ p.validity = Some(now) /\ p.reward = 0
          /\ ValidRequest([St EXCEPT !.now = 0], p)
          /\ Exec(St, "add_loan", "userA", DepositPayment(p), p).err = ILLEGAL_ARGUMENT
    /\ \E p \in LoanParams :
          /\ p.deposit_amount = 0
          /\ Exec(St, "add_loan", "userA", 0, p).err = OK

\* C16: a withdraw by an admin fails with IllegalArgument and changes nothing
\* if the id is unknown or not of native kind, if the amount is zero, or if
\* the amount exceeds the contract's native balance (counting what the call
\* itself carries) less the locked_amount of that id; otherwise it succeeds,
\* sends exactly the amount to `to` and leaves the storage as it was, so
\* that withdrawing all of the free balance leaves balance = locked_amount.
C16_WithdrawGuard ==
    \A sender \in admins, amount \in Amounts, p \in WithdrawParams :
        CanCall(St, sender, amount) =>
            \E o \in {Exec(St, "withdraw", sender, amount, p)} :
                LET balance == xtz[Self] + amount
                IN  IF \/ p.id \notin DOMAIN tokens
                       \/ tokens[p.id].type # XTZ
                       \/ p.amount = 0
                       \/ p.amount > balance - tokens[p.id].locked_amount
                    THEN o.err = ILLEGAL_ARGUMENT /\ o.st = St
                    ELSE /\ o.err = OK
                         /\ o.st = [St EXCEPT !.xtz = Move(Move(@, sender, Self, amount),
                                                          Self, p.to, p.amount)]
                         /\ (p.amount = balance - tokens[p.id].locked_amount
                                => o.st.xtz[Self] = tokens[p.id].locked_amount)

\* C16 witness: the free balance has just been withdrawn, the contract being
\* left with exactly the deposit locked under the id that was passed, and a
\* further withdraw of 1 under that id is refused.
C16_Witness ==
    /\ last = "withdraw"
    /\ \E id \in DOMAIN tokens :
          /\ tokens[id].type = XTZ
          /\ tokens[id].locked_amount = 1
          /\ xtz[Self] = 1
          /\ Exec(St, "withdraw", creator, 0, [to |-> creator, id |-> id, amount |-> 1]).err
                = ILLEGAL_ARGUMENT

\* C17: every call of an admin operation of the registry, withdraw included,
\* that carries a nonzero attached amount fails with IllegalTxAmount and
\* leaves the storage and the balances unchanged.
C17_RegistryRejectsPayment ==
    \A ep \in AdminOps, sender \in Users, amount \in Amounts \ {0} :
        \A p \in ParamsOf(ep) :
            CanCall(St, sender, amount) =>
                \E o \in {Exec(St, ep, sender, amount, p)} :
                    o.err = ILLEGAL_TX_AMOUNT /\ o.st = St

\* The error the claim gives a make_deal of id l by sender with amount
\* attached, the conditions taken in the order the claim lists them; OK when
\* none of them applies.
MakeDealError(l, sender, amount) ==
    IF pause THEN PAUSED
    ELSE IF l \notin DOMAIN loans THEN ILLEGAL_ARGUMENT
    ELSE IF sender = loans[l].borrower THEN ILLEGAL_ARGUMENT
    ELSE IF loans[l].validity # None /\ loans[l].validity[1] <= now THEN ILLEGAL_ARGUMENT
    ELSE IF amount # (IF tokens[loans[l].loan_token_id].type = XTZ
                      THEN loans[l].loan_amount ELSE 0) THEN ILLEGAL_TX_AMOUNT
    ELSE OK

\* C18: make_deal fails with Paused when paused; otherwise with
\* IllegalArgument if the id is no live request, if the caller is the
\* request's borrower, or if an expiry is set and is not after now (a request
\* without expiry is never refused for its age); otherwise with
\* IllegalTxAmount if the attached payment is not loan_amount for a native
\* loan or not zero for a token loan; every such failure changes nothing,
\* and no other call is refused with one of these errors.
C18_MakeDealRejections ==
    \A sender \in Users, amount \in Amounts, p \in LoanIdParams :
        CanCall(St, sender, amount) =>
            \E o \in {Exec(St, "make_deal", sender, amount, p)} :
                IF MakeDealError(p.id, sender, amount) # OK
                THEN o.err = MakeDealError(p.id, sender, amount) /\ o.st = St
                ELSE o.err \notin Errors

\* C18 witness: the clock has reached the expiry of a live request, which a
\* creditor could have funded before and is now refused, while a request
\* without expiry made at the same time can still be funded.
C18_Witness ==
    /\ ~pause /\ last = "tick"
    /\ \E l \in DOMAIN loans : \E sender \in Users, amount \in Amounts :
          /\ loans[l].validity = Some(now)
          /\ CanCall(St, sender, amount)
          /\ Exec([St EXCEPT !.now = 0], "make_deal", sender, amount, [id |-> l]).err = OK
          /\ Exec(St, "make_deal", sender, amount, [id |-> l]).err = ILLEGAL_ARGUMENT
    /\ \E l \in DOMAIN loans : \E sender \in Users, amount \in Amounts :
          /\ loans[l].validity = None
          /\ CanCall(St, sender, amount)
          /\ Exec(St, "make_deal", sender, amount, [id |-> l]).err = OK

\* C20: a cancel_loan with a payment attached fails (IllegalTxAmount);
\* without one it fails with IllegalArgument if the id is no live request
\* and with AccessDenied unless the caller is the request's borrower or an
\* admin; otherwise, whether or not the request's expiry has passed, it
\* succeeds when the contract holds the deposit: the deposit goes to the
\* request's borrower (also when an admin calls), locked_amount of the
\* deposit asset drops by deposit_amount and the request is deleted, nothing
\* else changing.
C20_CancelLoan ==
    \A sender \in Users, amount \in Amounts, p \in LoanIdParams :
        CanCall(St, sender, amount) =>
            \E o \in {Exec(St, "cancel_loan", sender, amount, p)} :
                IF amount # 0 THEN o.err = ILLEGAL_TX_AMOUNT /\ o.st = St
                ELSE IF p.id \notin DOMAIN loans THEN o.err = ILLEGAL_ARGUMENT /\ o.st = St
                ELSE IF sender # loans[p.id].borrower /\ sender \notin admins
                THEN o.err = ACCESS_DENIED /\ o.st = St
                ELSE IF Holding(St, tokens[loans[p.id].deposit_token_id], Self)
                            >= loans[p.id].deposit_amount
                THEN /\ o.err = OK
                     /\ o.st = Released([St EXCEPT !.data.loans = Del(@, p.id)],
                                        loans[p.id], loans[p.id].borrower)
                ELSE o.err = OP_FAILED /\ o.st = St

\* C20 witness: a request with a deposit has outlived its expiry, and an
\* admin who is not its borrower can cancel it, while a caller who is neither
\* is refused.
C20_Witness ==
    /\ last = "tick"
    /\ \E l \in DOMAIN loans :
          /\ loans[l].validity # None /\ loans[l].validity[1] < now
          /\ loans[l].deposit_amount > 0
          /\ loans[l].borrower # creator
          /\ Exec(St, "cancel_loan", creator, 0, [id |-> l]).err = OK
          /\ Exec(St, "cancel_loan", "userB", 0, [id |-> l]).err = ACCESS_DENIED

\* The ids that have been given to deals, live or closed.
DealIdsGiven == {book[l].deal : l \in DOMAIN book} \ {0}

\* The catalog ids are exactly those below the asset counter (entries are
\* never deleted); a live request or deal has an id from 1 to its counter.
C21_Bounded ==
    /\ DOMAIN tokens = 0..(ntoken - 1)
    /\ DOMAIN loans \subseteq 1..nloan
    /\ DOMAIN deals \subseteq 1..ndeal
    /\ DOMAIN book = 1..nloan
    /\ DealIdsGiven = 1..ndeal

\* No counter goes down, and a record that appears has an id above the old
\* value of its counter, an id that no record was given before.
C21_Step ==
    /\ ntoken' >= ntoken /\ nloan' >= nloan /\ ndeal' >= ndeal
    /\ DOMAIN tokens \subseteq DOMAIN tokens'
    /\ \A k \in DOMAIN loans' \ DOMAIN loans : k > nloan /\ k \notin DOMAIN book
    /\ \A k \in DOMAIN deals' \ DOMAIN deals : k > ndeal /\ k \notin DealIdsGiven

\* C21: the asset, request and deal counters never decrease and an id is
\* given at most once: the id of a live record is bounded by its counter,
\* the ids given so far are exactly those up to the counter, and every step
\* that creates a record creates it under an id above the counter, also
\* after requests and deals have been deleted.
C21_IdsNeverReused == []C21_Bounded /\ [][C21_Step]_vars

\* C21 witness: a request has just been made, under id 2, after request 1
\* was deleted by cancel_loan or went through a deal that is closed.
C21_Witness ==
    /\ last = "add_loan"
    /\ 1 \notin DOMAIN loans /\ 2 \in DOMAIN loans
    /\ book[1].st \in Terminal

\* C22: add_admin and remove_admin refuse a call with a payment attached
\* (IllegalTxAmount) and a caller outside the admin set (AccessDenied); a
\* call by an admin with nothing attached fails with IllegalArgument if
\* add_admin names an admin, or remove_admin names the creator or an
\* identity outside the set, and otherwise adds, or removes, exactly the
\* identity named, the caller's own included, nothing else changing; no call
\* of any other operation changes the admin set.
C22_AdminSetMaintenance ==
    \A sender \in Users, amount \in Amounts :
        CanCall(St, sender, amount) =>
            /\ \A p \in AdminParams :
                  /\ \E o \in {Exec(St, "add_admin", sender, amount, p)} :
                        IF amount # 0 THEN o.err = ILLEGAL_TX_AMOUNT /\ o.st = St
                        ELSE IF sender \notin admins THEN o.err = ACCESS_DENIED /\ o.st = St
                        ELSE IF p.address \in admins
                        THEN o.err = ILLEGAL_ARGUMENT /\ o.st = St
                        ELSE /\ o.err = OK
                             /\ o.st = [St EXCEPT !.data.admins = @ \cup {p.address}]
                  /\ \E o \in {Exec(St, "remove_admin", sender, amount, p)} :
                        IF amount # 0 THEN o.err = ILLEGAL_TX_AMOUNT /\ o.st = St
                        ELSE IF sender \notin admins THEN o.err = ACCESS_DENIED /\ o.st = St
                        ELSE IF p.address \notin admins \/ p.address = creator
                        THEN o.err = ILLEGAL_ARGUMENT /\ o.st = St
                        ELSE /\ o.err = OK
                             /\ o.st = [St EXCEPT !.data.admins = @ \ {p.address}]
            /\ \A ep \in EntryPoints \ {"add_admin", "remove_admin"} :
                  \A p \in ParamsOf(ep) :
                      Exec(St, ep, sender, amount, p).st.data.admins = admins

\* C22 witness: an admin has just been removed while a deal is live, leaving
\* the creator alone, who can add it again and cannot remove it again.
C22_Witness ==
    /\ last = "remove_admin"
    /\ admins = {creator}
    /\ deals # << >>
    /\ Exec(St, "add_admin", creator, 0, [address |-> "userA"]).err = OK
    /\ Exec(St, "remove_admin", creator, 0, [address |-> "userA"]).err = ILLEGAL_ARGUMENT

\* Pairs of bounds a caller may pass: those of TimePairs and, among others,
\* pairs with min = max, with both zero and with min one above max.
BoundPairs ==
    TimePairs \cup [min : {0, 1 * DAY, 7 * DAY, 7 * DAY + 1}, max : {0, 1 * DAY, 7 * DAY}]

\* C23: the duration bounds satisfy 0 < min <= max in every reachable state;
\* a set_time by an admin with nothing attached fails with IllegalArgument
\* and changes nothing unless 0 < min <= max and the pair differs from the
\* one in effect, and then puts the pair in effect, nothing else changing (a
\* payment attached is refused with IllegalTxAmount, a caller outside the
\* admin set with AccessDenied); no call of any other operation changes the
\* bounds.
C23_DurationBounds ==
    /\ 0 < time.min /\ time.min <= time.max
    /\ \A sender \in Users, amount \in Amounts :
          CanCall(St, sender, amount) =>
              /\ \A p \in BoundPairs :
                    \E o \in {Exec(St, "set_time", sender, amount, p)} :
                        IF amount # 0 THEN o.err = ILLEGAL_TX_AMOUNT /\ o.st = St
                        ELSE IF sender \notin admins THEN o.err = ACCESS_DENIED /\ o.st = St
                        ELSE IF ~(0 < p.min /\ p.min <= p.max) \/ p = time
                        THEN o.err = ILLEGAL_ARGUMENT /\ o.st = St
                        ELSE o.err = OK /\ o.st = [St EXCEPT !.data.time = p]
              /\ \A ep \in EntryPoints \ {"set_time"} :
                    \A p \in ParamsOf(ep) :
                        Exec(St, ep, sender, amount, p).st.data.time = time

\* C23 witness: the bounds have just been changed while a request is live,
\* and the creator can set a pair with min = max but none with min = 0 or
\* min > max, nor the pair in effect.
C23_Witness ==
    /\ last = "set_time"
    /\ time # InitData.time
    /\ loans # << >>
    /\ Exec(St, "set_time", creator, 0, [min |-> 7 * DAY, max |-> 7 * DAY]).err = OK
    /\ Exec(St, "set_time", creator, 0, [min |-> 0, max |-> 7 * DAY]).err = ILLEGAL_ARGUMENT
    /\ Exec(St, "set_time", creator, 0, [min |-> 7 * DAY + 1, max |-> 7 * DAY]).err
          = ILLEGAL_ARGUMENT
    /\ Exec(St, "set_time", creator, 0, time).err = ILLEGAL_ARGUMENT

\* State st with catalog entry id switched off.
Deactivated(st, id) == [st EXCEPT !.data.tokens[id].active = FALSE]

\* The outcome o of a call made with entry id switched off is the outcome u
\* of the same call made with the entry as it was: the same error, the same
\* transfers, the same state but for the flag.
SameOutcome(o, u, id) ==
    /\ o.err = u.err /\ o.ops = u.ops /\ o.st = Deactivated(u.st, id)

\* C24: set_token_active(id, false) by an admin on an active entry changes
\* the flag and nothing else: every locked_amount and every request and
\* deal stay as they were.  In the state it leaves, an add_loan naming the
\* entry as loan or deposit asset is refused (IllegalArgument), every other
\* add_loan and every cancel_loan, make_deal and close_deal has the outcome
\* it would have had with the entry active, and so the calls on records that
\* use the asset go through and release or carry forward the deposit.
C24_DeactivationKeepsEscrow ==
    \A id \in DOMAIN tokens : \A admin \in admins :
        tokens[id].active =>
            \E off \in {Exec(St, "set_token_active", admin, 0, [id |-> id, active |-> FALSE])} :
                /\ off.err = OK
                /\ off.st = Deactivated(St, id)
                /\ \A sender \in Users, amount \in Amounts :
                      CanCall(St, sender, amount) =>
                          /\ \A p \in LoanParams :
                                \E o \in {Exec(off.st, "add_loan", sender, amount, p)} :
                                    IF pause THEN o.err = PAUSED
                                    ELSE IF id \in {p.loan_token_id, p.deposit_token_id}
                                    THEN o.err = ILLEGAL_ARGUMENT /\ o.st = off.st
                                    ELSE SameOutcome(o, Exec(St, "add_loan", sender, amount, p), id)
                          /\ \A ep \in {"cancel_loan", "make_deal", "close_deal"} :
                                \A p \in ParamsOf(ep) :
                                    SameOutcome(Exec(off.st, ep, sender, amount, p),
                                                Exec(St, ep, sender, amount, p), id)

\* C24 witness: the only lineage there is has just been closed by the
\* borrower's repayment, the deposit paid back, with both catalog entries
\* switched off.
C24_Witness ==
    /\ last = "close_deal"
    /\ ntoken = 2 /\ \A id \in DOMAIN tokens : ~tokens[id].active
    /\ nloan = 1 /\ book[1].st = "RepaidClosed" /\ Len(book[1].paid) = 1

\* Every live deal has two parties, and the request's borrower is refused
\* as the creditor of its own request whatever it attaches.
C25_TwoParties ==
    /\ \A k \in DOMAIN deals : deals[k].borrower # deals[k].creditor
    /\ \A l \in DOMAIN loans : \A amount \in Amounts :
          CanCall(St, loans[l].borrower, amount) =>
              \E o \in {Exec(St, "make_deal", loans[l].borrower, amount, [id |-> l])} :
                  o.err \in {PAUSED, ILLEGAL_ARGUMENT} /\ o.st = St

\* A deal is recorded by make_deal with the caller as creditor and the
\* request's borrower as borrower, and stays as recorded while it is live.
C25_Step ==
    /\ \A k \in DOMAIN deals : k \in DOMAIN deals' => deals'[k] = deals[k]
    /\ \A k \in DOMAIN deals' \ DOMAIN deals :
          /\ last' = "make_deal"
          /\ \E l \in DOMAIN loans \ DOMAIN loans' :
                /\ deals'[k].borrower = loans[l].borrower
                /\ deals'[k].creditor # loans[l].borrower

\* C25: in every reachable state every live deal has a borrower different
\* from its creditor: make_deal refuses the borrower of the request as
\* caller and no operation edits a live deal, so that no caller of
\* close_deal is borrower and creditor of the deal at once.
C25_BorrowerIsNotCreditor == []C25_TwoParties /\ [][C25_Step]_vars

\* C25 witness: a deal has just been made while another request is live,
\* whose borrower is refused as its creditor and another caller is not.
C25_Witness ==
    /\ last = "make_deal" /\ deals # << >>
    /\ \E l \in DOMAIN loans : \E sender \in Users :
          /\ Exec(St, "make_deal", loans[l].borrower, 0, [id |-> l]).err = ILLEGAL_ARGUMENT
          /\ Exec(St, "make_deal", sender, 0, [id |-> l]).err = OK

\* A close_deal of a live deal that goes through is the repayment when the
\* caller is the borrower, admin or not, and otherwise pays the deposit to
\* the creditor and nothing to anyone else.
C26_Branches ==
    \A k \in DOMAIN deals : \A sender \in Users, amount \in Amounts :
        CanCall(St, sender, amount) =>
            \E o \in {Exec(St, "close_deal", sender, amount, [id |-> k])} :
                o.err = OK =>
                    IF sender = deals[k].borrower
                    THEN /\ o.st = Repaid(k)
                         /\ Holding(o.st, tokens[deals[k].loan_token_id], deals[k].creditor)
                              = Holding(St, tokens[deals[k].loan_token_id], deals[k].creditor)
                                + deals[k].loan_amount + deals[k].reward
                    ELSE /\ DefaultSettled(k, o)
                         /\ o.st.xtz[deals[k].borrower] = xtz[deals[k].borrower]
                         /\ \A a \in Ledgers :
                               o.st.tok[a][deals[k].borrower] = tok[a][deals[k].borrower]

\* The deposit of a lineage that has been funded is paid out by close_deal
\* alone, and to the borrower only in a step that closes the lineage as
\* repaid and in which the creditor receives loan_amount + reward.
C26_Step ==
    \A l \in DOMAIN book :
        (book[l].deal # 0 /\ book'[l].paid # book[l].paid) =>
            /\ last' = "close_deal"
            /\ book[l].deal \in DOMAIN deals
            /\ \E deal \in {deals[book[l].deal]} :
                  \A i \in DOMAIN book'[l].paid :
                      IF book'[l].paid[i].to = deal.borrower
                      THEN /\ book'[l].st = "RepaidClosed"
                           /\ Holding(St', tokens[deal.loan_token_id], deal.creditor)
                                = Holding(St, tokens[deal.loan_token_id], deal.creditor)
                                  + deal.loan_amount + deal.reward
                      ELSE /\ book'[l].st = "DefaultClosed"
                           /\ book'[l].paid[i].to = deal.creditor

\* C26: once a request has been funded, its deposit goes back to the
\* borrower only in a close_deal step that delivers loan_amount + reward of
\* the loan asset to the creditor; a borrower who is an admin takes the
\* repayment branch like any borrower, and a caller who is not the
\* borrower, an admin among them, can only send the deposit to the creditor.
C26_DepositBackOnlyOnRepayment == []C26_Branches /\ [][C26_Step]_vars

\* C26 witness: the borrower of the only lineage is an admin and has just
\* closed the deal, which is recorded as repaid, with the deposit back.
C26_Witness ==
    /\ last = "close_deal"
    /\ nloan = 1 /\ book[1].st = "RepaidClosed"
    /\ book[1].borrower \in admins
    /\ book[1].paid = <<[to |-> book[1].borrower, amount |-> 1]>>

\* The native descriptor of the catalog (the first of the test's tokens).
NativeDescriptor ==
    [name |-> "XTZ", address |-> Self, type |-> XTZ, token_id |-> 0, decimals |-> 6]

\* In state st an admin can withdraw amount: under every native entry of
\* the catalog, and under a native entry added for the purpose.
Withdrawable(st, admin, amount) ==
    /\ \A id \in DOMAIN st.data.tokens :
          st.data.tokens[id].type = XTZ =>
              Exec(st, "withdraw", admin, 0,
                   [to |-> admin, id |-> id, amount |-> amount]).err = OK
    /\ \E added \in {Exec(st, "add_token", admin, 0, NativeDescriptor)} :
          /\ added.err = OK
          /\ Exec(added.st, "withdraw", admin, 0,
                  [to |-> admin, id |-> st.data.ntoken, amount |-> amount]).err = OK

C28_NoStuckEscrow ==
    /\ \A l \in DOMAIN loans :
          Exec(St, "cancel_loan", loans[l].borrower, 0, [id |-> l]).err = OK
    /\ \A k \in DOMAIN deals :
          deals[k].exp < now =>
              Exec(St, "close_deal", deals[k].creditor, 0, [id |-> k]).err = OK

====
